---- MODULE Spec2Model ----
(***************************************************************************)
(* Model of nbnq.py: the NetBIOS name service codecs (header, name,        *)
(* resource record) and the broadcast resolver loop NetBIOS._query.        *)
(* Python byte strings are sequences of integers 0..255.                   *)
(***************************************************************************)
EXTENDS Integers, Sequences, FiniteSets, TLC

\* ------------------------------------------------------------------ bounds
\* transaction ids sampled for randint(1, 65535): 1..MaxTid and 65535
MaxTid == 2
\* names of length 0..MaxNameLen are encoded
MaxNameLen == 20
\* number of byte patterns the input names and rdata are filled with
NumPatterns == 2
\* rdata payloads of length 0..MaxRdataLen are parsed
MaxRdataLen == 13

\* ------------------------------------------------------ program constants
BCAST_REQ_MAX_ATTEMPTS == 3
RR_TYPE_NB == 32
RR_TYPE_NBSTAT == 33
CLASS_IN == 1
TYPE_WORKSTATION == 0
TYPE_SERVER == 32
TYPE_DOMAIN_MASTER == 27

\* ------------------------------------------------- Python string helpers
Min(a, b) == IF a < b THEN a ELSE b

Max(a, b) == IF a > b THEN a ELSE b

\* a slice bound as Python normalises it: negative counts from the end,
\* everything is clipped to 0..len
PyIndex(s, i) == IF i < 0 THEN Max(Len(s) + i, 0) ELSE Min(i, Len(s))

\* s[lo:hi]
PySlice(s, lo, hi) == IF PyIndex(s, lo) >= PyIndex(s, hi) THEN <<>> ELSE SubSeq(s, PyIndex(s, lo) + 1, PyIndex(s, hi))

\* s[lo:]
PySliceFrom(s, lo) == PySlice(s, lo, Len(s))

\* s.find(ch): 0-based index of the first occurrence, -1 when absent
PyFind(s, ch) == IF \E i \in 1..Len(s) : s[i] = ch THEN (CHOOSE i \in 1..Len(s) : s[i] = ch /\ \A j \in 1..(i - 1) : s[j] # ch) - 1 ELSE -1

RECURSIVE PySplit(_, _)
\* s.split(sep) for a one-character separator
PySplit(s, sep) == IF PyFind(s, sep) = -1 THEN <<s>> ELSE <<PySlice(s, 0, PyFind(s, sep))>> \o PySplit(PySliceFrom(s, PyFind(s, sep) + 1), sep)

RECURSIVE Concat(_)
\* "".join(list)
Concat(ss) == IF ss = <<>> THEN <<>> ELSE Head(ss) \o Concat(Tail(ss))

\* pack(">H", n)
Pack16(n) == <<(n \div 256) % 256, n % 256>>

\* pack(">I", n)
Pack32(n) == <<(n \div 16777216) % 256, (n \div 65536) % 256, (n \div 256) % 256, n % 256>>

\* unpack(">H", s[i..i+1]), i 1-based
Unpack16(s, i) == s[i] * 256 + s[i + 1]

\* unpack(">I", s[i..i+3]), i 1-based
Unpack32(s, i) == s[i] * 16777216 + s[i + 1] * 65536 + s[i + 2] * 256 + s[i + 3]

RECURSIVE Dec(_)
\* "%d" % n for n >= 0, as character codes
Dec(n) == IF n < 10 THEN <<48 + n>> ELSE Dec(n \div 10) \o <<48 + (n % 10)>>

\* "%d.%d.%d.%d" % (b[1], b[2], b[3], b[4])
DottedQuad(b) == Dec(b[1]) \o <<46>> \o Dec(b[2]) \o <<46>> \o Dec(b[3]) \o <<46>> \o Dec(b[4])

\* ---------------------------------------------------------- header codec
\* NameServiceHeader.request.new: the flags word
RequestFlags(broadcast) == IF broadcast THEN 272 ELSE 256

PackTransactionId_LE(transaction_id) == <<transaction_id % 256, (transaction_id \div 256) % 256>>

\* the transaction id field of pack(">HHHHHH", transaction_id, ...)
PackTransactionId(transaction_id) == Pack16(transaction_id)

\* NameServiceHeader.request.new
HeaderRequestNew(transaction_id, qdcount, ancount, nscount, arcount, broadcast) == PackTransactionId(transaction_id) \o Pack16(RequestFlags(broadcast)) \o Pack16(qdcount) \o Pack16(ancount) \o Pack16(nscount) \o Pack16(arcount)

TruncationBit_Bit10(flags) == (flags \div 1024) % 2 = 1

\* self.flags & (1 << 9)
TruncationBit(flags) == (flags \div 512) % 2 = 1

\* NameServiceHeader.response.read: unpack needs exactly 12 bytes, then the
\* truncation test; raise names the exception, "none" when it returns
HeaderResponseRead(data) == IF Len(data) # 12 THEN [raise |-> "struct.error"] ELSE IF TruncationBit(Unpack16(data, 3)) THEN [raise |-> "UnsupportedFeature"] ELSE [raise |-> "none", transaction_id |-> Unpack16(data, 1), flags |-> Unpack16(data, 3), qdcount |-> Unpack16(data, 5), ancount |-> Unpack16(data, 7), nscount |-> Unpack16(data, 9), arcount |-> Unpack16(data, 11)]

\* ------------------------------------------------------------ name codec
Spaces(n) == [i \in 1..n |-> 32]

\* lines 113-114: the 16-byte label; a name of exactly 15 characters takes
\* neither branch and is left as it is
PadName(netbios_name, type) == IF Len(netbios_name) > 15 THEN PySlice(netbios_name, 0, 15) \o <<type>> ELSE IF Len(netbios_name) < 15 THEN netbios_name \o Spaces(15 - Len(netbios_name)) \o <<type>> ELSE netbios_name

\* line 115: two characters per byte, high nibble then low nibble, + 0x41
EncodeNibbles(label) == Concat([i \in 1..Len(label) |-> <<(label[i] \div 16) + 65, (label[i] % 16) + 65>>])

\* lines 116-117: length-prefixed scope labels
EncodeDomain(domain_name) == IF domain_name = <<>> THEN <<>> ELSE Concat([i \in 1..Len(PySplit(domain_name, 46)) |-> <<Len(PySplit(domain_name, 46)[i])>> \o PySplit(domain_name, 46)[i]])

\* NameServiceQuery.request.encode
encode(netbios_name, domain_name, type) == <<32>> \o EncodeNibbles(PadName(netbios_name, type)) \o EncodeDomain(domain_name) \o <<0>>

\* NameServiceQuery.request.new
QueryRequestNew(transaction_id, netbios_name, domain_name, type, rr_type) == HeaderRequestNew(transaction_id, 1, 0, 0, 0, FALSE) \o encode(netbios_name, domain_name, type) \o Pack16(rr_type) \o Pack16(CLASS_IN)

\* NameServiceQuery.response.read
QueryResponseRead(data) == IF HeaderResponseRead(PySlice(data, 0, 12)).raise # "none" THEN [raise |-> HeaderResponseRead(PySlice(data, 0, 12)).raise] ELSE [raise |-> "none", header |-> HeaderResponseRead(PySlice(data, 0, 12)), resource_record |-> PySliceFrom(data, 12)]

\* --------------------------------------------------- resource record codec
\* NameServiceResourceRecord.__init__ on the bytes response.resource_record
NameServiceResourceRecord(rr) == LET end_of_name == PyFind(rr, 0)
                                     fixed == PySlice(rr, end_of_name + 1, end_of_name + 11)
                                 IN IF Len(fixed) # 10 THEN [raise |-> "struct.error"] ELSE [raise |-> "none", name |-> PySlice(rr, 0, end_of_name), rr_type |-> Unpack16(fixed, 1), rr_class |-> Unpack16(fixed, 3), ttl |-> Unpack32(fixed, 5), rdata_length |-> Unpack16(fixed, 9), rdata |-> PySliceFrom(rr, end_of_name + 11)]

AddrBytes_FromStart(addr_array) == PySlice(addr_array, 0, 4)

\* addr_array[2:6]
AddrBytes(addr_array) == PySlice(addr_array, 2, 6)

RECURSIVE WalkAddresses(_)
\* the while loop of get_ip, lines 145-147
WalkAddresses(addr_array) == IF Len(addr_array) >= 6 THEN <<DottedQuad(AddrBytes(addr_array))>> \o WalkAddresses(PySliceFrom(addr_array, 6)) ELSE <<>>

\* NameServiceResourceRecord.get_ip
RecordGetIp(record) == IF ~(record.rr_type = RR_TYPE_NB) THEN [kind |-> "None"] ELSE [kind |-> "list", ip |-> WalkAddresses(record.rdata)]

\* ------------------------------------------------------------ the resolver
VARIABLES pc, api, netbios_name, domain_name, type, rr_type, transaction_id, attempt, sent, data, response, resource_record, err, result, event, timeouts, heard

\* the name codec applied to drawn inputs
VARIABLES encName, encDomain, encType, encoded, encodedPrefix

\* the record codec applied to drawn inputs
VARIABLES recBuf, record, addresses

resolverVars == <<pc, api, netbios_name, domain_name, type, rr_type, transaction_id, attempt, sent, data, response, resource_record, err, result, event, timeouts, heard>>

encVars == <<encName, encDomain, encType, encoded, encodedPrefix>>

recVars == <<recBuf, record, addresses>>

vars == <<resolverVars, encVars, recVars>>

\* a local that has not been assigned yet
Unset == [raise |-> "unset"]

\* ------------------------------------------------------------------ inputs
\* byte i of the k-th input pattern: letters for k = 1, arbitrary bytes after
PatternByte(k, i) == IF k = 1 THEN 65 + ((i - 1) % 26) ELSE (i * 37 * k + 11) % 256

InputNames == {[i \in 1..n |-> PatternByte(k, i)] : n \in 0..MaxNameLen, k \in 1..NumPatterns}

\* "", "org", "a.bc"
InputDomains == {<<>>, <<111, 114, 103>>, <<97, 46, 98, 99>>}

InputTypes == {TYPE_WORKSTATION, TYPE_SERVER, TYPE_DOMAIN_MASTER, 255}

\* what randint(1, 65535) is sampled from
Tids == (1..MaxTid) \cup {65535}

QueryNames == {[i \in 1..n |-> PatternByte(1, i)] : n \in {2, 15}}

QueryTypes == {TYPE_WORKSTATION, TYPE_SERVER}

\* the name a responder echoes in its record
ResponseName == <<32>> \o [i \in 1..32 |-> 65 + (i % 16)] \o <<0>>

MkRecord(rrtype, rdlen, payload) == ResponseName \o Pack16(rrtype) \o Pack16(CLASS_IN) \o Pack32(300000) \o Pack16(rdlen) \o payload

\* one NB address entry: 2 bytes of flags, 4 bytes of address
Entry(a) == <<0, 0, 192, 168, 1, a>>

\* a second record behind the first: compressed name pointer, NB, IN, ttl,
\* rdata_length 6, one entry
SecondRecord == <<192, 12>> \o Pack16(RR_TYPE_NB) \o Pack16(CLASS_IN) \o Pack32(300000) \o Pack16(6) \o <<0, 0, 10, 0, 0, 2>>

Bodies == {MkRecord(RR_TYPE_NB, 6, Entry(1)), MkRecord(RR_TYPE_NB, 6, Entry(1) \o SecondRecord), MkRecord(RR_TYPE_NBSTAT, 6, Entry(3)), MkRecord(RR_TYPE_NB, 8, Entry(1) \o <<0, 0>>), <<0, 0, 32>>}

\* 0x8500: response, authoritative; 0x8300: response with the truncation bit
ResponseFlags == {34048, 33536}

MkDatagram(tid, flags, body) == Pack16(tid) \o Pack16(flags) \o Pack16(0) \o Pack16(1) \o Pack16(0) \o Pack16(0) \o body

\* what self._socket.recv(65535) may return
Datagrams == {MkDatagram(t, f, b) : t \in Tids, f \in ResponseFlags, b \in Bodies} \cup {<<0, 1, 129>>}

Payload(n, k) == [i \in 1..n |-> PatternByte(k + 1, i)]

RecordBuffers == {MkRecord(t, l, Payload(n, k)) : t \in {RR_TYPE_NB, RR_TYPE_NBSTAT}, l \in {0, 6}, n \in 0..MaxRdataLen, k \in 1..NumPatterns}

\* ----------------------------------------------------------------- actions
ResolverInit == /\ pc = "idle"
                /\ api = "none"
                /\ netbios_name = <<>>
                /\ domain_name = <<>>
                /\ type = 0
                /\ rr_type = 0
                /\ transaction_id = 0
                /\ attempt = 0
                /\ sent = <<>>
                /\ data = <<>>
                /\ response = Unset
                /\ resource_record = Unset
                /\ err = [kind |-> "none"]
                /\ result = Unset
                /\ event = "none"
                /\ timeouts = 0
                /\ heard = FALSE

EncIdle == /\ encName = <<>>
           /\ encDomain = <<>>
           /\ encType = 0
           /\ encoded = Unset
           /\ encodedPrefix = Unset

RecIdle == /\ recBuf = <<>>
           /\ record = Unset
           /\ addresses = Unset

Init == ResolverInit /\ EncIdle /\ RecIdle

\* lines 69-70: entry of _query
Enter(n, d, t, r, how) == /\ pc = "idle"
                          /\ api' = how
                          /\ netbios_name' = n
                          /\ domain_name' = d
                          /\ type' = t
                          /\ rr_type' = r
                          /\ \E tid \in Tids : transaction_id' = tid
                          /\ attempt' = 1
                          /\ pc' = "send"
                          /\ event' = "call"
                          /\ UNCHANGED <<sent, data, response, resource_record, err, result, timeouts, heard>>
                          /\ UNCHANGED <<encVars, recVars>>

\* a direct call of _query
Query == \E n \in QueryNames, t \in QueryTypes, r \in {RR_TYPE_NB, RR_TYPE_NBSTAT} : Enter(n, <<>>, t, r, "_query")

\* get_ip: _query with RR_TYPE_NB, then get_ip of the record
GetIp == \E n \in QueryNames, t \in QueryTypes : Enter(n, <<>>, t, RR_TYPE_NB, "get_ip")

\* lines 71, 73: the loop test and sendto (taken to succeed)
Send == /\ pc = "send"
        /\ attempt <= BCAST_REQ_MAX_ATTEMPTS
        /\ sent' = Append(sent, QueryRequestNew(transaction_id, netbios_name, domain_name, type, rr_type))
        /\ pc' = "recv"
        /\ event' = "send"
        /\ UNCHANGED <<api, netbios_name, domain_name, type, rr_type, transaction_id, attempt, data, response, resource_record, err, result, timeouts, heard>>
        /\ UNCHANGED <<encVars, recVars>>

TidMatches_Always(resp, tid) == TRUE

\* line 76
TidMatches(resp, tid) == resp.header.transaction_id = tid

TypeMatches_Always(rec, rrt) == TRUE

\* line 78
TypeMatches(rec, rrt) == rec.rr_type = rrt

\* lines 75-79 on one datagram d: what the loop body does
\*   raise    an exception other than socket.timeout leaves _query
\*   continue the datagram is dropped and recv is called again
\*   break    the record is the one returned
RecvOutcome(d, tid, rrt) == LET resp == QueryResponseRead(d)
                                rec == NameServiceResourceRecord(resp.resource_record)
                            IN IF resp.raise # "none" THEN [next |-> "raise", kind |-> resp.raise, read |-> FALSE, parsed |-> FALSE]
                               ELSE IF ~TidMatches(resp, tid) THEN [next |-> "continue", read |-> TRUE, parsed |-> FALSE]
                               ELSE IF rec.raise # "none" THEN [next |-> "raise", kind |-> rec.raise, read |-> TRUE, parsed |-> FALSE]
                               ELSE IF TypeMatches(rec, rrt) THEN [next |-> "break", read |-> TRUE, parsed |-> TRUE]
                               ELSE [next |-> "continue", read |-> TRUE, parsed |-> TRUE]

\* line 84 and, through get_ip, line 87
Returned(how, rec) == IF how = "get_ip" THEN RecordGetIp(rec) ELSE [kind |-> "record"]

\* recv returns the datagram d
Recv == /\ pc = "recv"
        /\ \E d \in Datagrams :
             LET o == RecvOutcome(d, transaction_id, rr_type)
                 resp == QueryResponseRead(d)
                 rec == NameServiceResourceRecord(resp.resource_record)
             IN /\ data' = d
                /\ response' = IF o.read THEN resp ELSE response
                /\ resource_record' = IF o.parsed THEN rec ELSE resource_record
                /\ pc' = IF o.next = "raise" THEN "raised" ELSE IF o.next = "break" THEN "done" ELSE "recv"
                /\ err' = IF o.next = "raise" THEN [kind |-> o.kind] ELSE err
                /\ result' = IF o.next = "break" THEN Returned(api, rec) ELSE result
        /\ event' = "datagram"
        /\ heard' = TRUE
        /\ UNCHANGED <<api, netbios_name, domain_name, type, rr_type, transaction_id, attempt, sent, timeouts>>
        /\ UNCHANGED <<encVars, recVars>>

IsLastAttempt_OffByOne(a) == a = BCAST_REQ_MAX_ATTEMPTS + 1

\* line 81: the test of the except clause
IsLastAttempt(a) == a = BCAST_REQ_MAX_ATTEMPTS

\* lines 80-82: recv raises socket.timeout
Timeout == /\ pc = "recv"
           /\ event' = "timeout"
           /\ timeouts' = timeouts + 1
           /\ pc' = IF IsLastAttempt(attempt) THEN "raised" ELSE "send"
           /\ err' = IF IsLastAttempt(attempt) THEN [kind |-> "Timeout", fmt |-> "Timed out. No response to request for %s.", args |-> <<netbios_name>>] ELSE err
           /\ attempt' = IF IsLastAttempt(attempt) THEN attempt ELSE attempt + 1
           /\ UNCHANGED <<api, netbios_name, domain_name, type, rr_type, transaction_id, sent, data, response, resource_record, result, heard>>
           /\ UNCHANGED <<encVars, recVars>>

Next == Query \/ GetIp \/ Send \/ Recv \/ Timeout

Spec == Init /\ [][Next]_vars

\* the resolver always takes its next step; what recv returns is up to the
\* network
SpecLive == Init /\ [][Next]_vars /\ WF_vars(Next)

\* ------------------------------------------------- the name codec, applied
EncInit == /\ ResolverInit
           /\ RecIdle
           /\ encName \in InputNames
           /\ encDomain \in InputDomains
           /\ encType \in InputTypes
           /\ encoded = Unset
           /\ encodedPrefix = Unset

\* encode(name, domain, type)
Encode == /\ encoded = Unset
          /\ encoded' = [raise |-> "none", bytes |-> encode(encName, encDomain, encType)]
          /\ UNCHANGED <<encName, encDomain, encType, encodedPrefix>>
          /\ UNCHANGED <<resolverVars, recVars>>

\* encode(name[:15], domain, type)
EncodePrefix == /\ encodedPrefix = Unset
                /\ encodedPrefix' = [raise |-> "none", bytes |-> encode(PySlice(encName, 0, 15), encDomain, encType)]
                /\ UNCHANGED <<encName, encDomain, encType, encoded>>
                /\ UNCHANGED <<resolverVars, recVars>>

EncNext == Encode \/ EncodePrefix

SpecEncode == EncInit /\ [][EncNext]_vars

\* ----------------------------------------------- the record codec, applied
RecInit == /\ ResolverInit
           /\ EncIdle
           /\ recBuf \in RecordBuffers
           /\ record = Unset
           /\ addresses = Unset

\* NameServiceResourceRecord(response)
ParseRecord == /\ record = Unset
               /\ record' = NameServiceResourceRecord(recBuf)
               /\ UNCHANGED <<recBuf, addresses>>
               /\ UNCHANGED <<resolverVars, encVars>>

\* record.get_ip()
GetIpOfRecord == /\ record.raise = "none"
                 /\ addresses = Unset
                 /\ addresses' = RecordGetIp(record)
                 /\ UNCHANGED <<recBuf, record>>
                 /\ UNCHANGED <<resolverVars, encVars>>

RecNext == ParseRecord \/ GetIpOfRecord

SpecRecord == RecInit /\ [][RecNext]_vars

\* ------------------------------------------------------------- properties
RECURSIVE DecValue(_)
\* the number a string of decimal digits denotes, -1 when it is no such string
DecValue(s) == IF s = <<>> \/ \E i \in 1..Len(s) : s[i] \notin 48..57 THEN -1 ELSE IF Len(s) = 1 THEN s[1] - 48 ELSE DecValue(SubSeq(s, 1, Len(s) - 1)) * 10 + (s[Len(s)] - 48)

\* the four numbers of a dotted-decimal string, read back from its characters
ParseDotted(s) == [i \in 1..Len(PySplit(s, 46)) |-> DecValue(PySplit(s, 46)[i])]

\* C1: a call never sends more than 3 requests; the 3rd timeout ends it with
\* Timeout; a call that ended without ever receiving a datagram ended with
\* Timeout after exactly 3 requests, and the Timeout names the queried name.
C1_RetryBound == /\ Len(sent) <= 3
                 /\ timeouts <= 3
                 /\ timeouts = 3 => (pc = "raised" /\ err.kind = "Timeout")
                 /\ (pc \in {"done", "raised"} /\ ~heard) => (err.kind = "Timeout" /\ timeouts = 3)
                 /\ (pc = "raised" /\ err.kind = "Timeout") => (Len(sent) = 3 /\ err.args = <<netbios_name>>)

C1_Witness == pc = "raised" /\ err.kind = "Timeout" /\ ~heard /\ Len(sent) = 3 /\ timeouts = 3

\* C2 as stated: every received datagram with a header whose transaction id
\* differs from the query's is dropped: the attempt counter and the requests
\* sent are unchanged, no timeout is counted, the call keeps receiving.
C2_AnyMismatchDiscarded == [][(pc = "recv" /\ event' = "datagram" /\ Len(data') >= 12 /\ Unpack16(data', 1) # transaction_id) => (pc' = "recv" /\ attempt' = attempt /\ sent' = sent /\ timeouts' = timeouts)]_vars

\* C2 amended: the same for a datagram whose header also has the truncation
\* bit (bit 9 of the flags) clear.
C2_MismatchDiscarded == [][(pc = "recv" /\ event' = "datagram" /\ Len(data') >= 12 /\ (Unpack16(data', 3) \div 512) % 2 = 0 /\ Unpack16(data', 1) # transaction_id) => (pc' = "recv" /\ attempt' = attempt /\ sent' = sent /\ timeouts' = timeouts)]_vars

C2_Witness == pc = "recv" /\ event = "datagram" /\ Len(data) >= 12 /\ Unpack16(data, 1) # transaction_id /\ Len(sent) = attempt /\ attempt = 2

\* C3: the record a call returns is the one parsed from the last datagram
\* received, and on the wire that datagram carries the transaction id of the
\* request and, behind the record's name, the requested record type.
C3_ReturnedRecordMatches == pc = "done" => /\ Len(data) >= 12
                                           /\ Unpack16(data, 1) = transaction_id
                                           /\ Unpack16(data, 1) = Unpack16(sent[Len(sent)], 1)
                                           /\ resource_record = NameServiceResourceRecord(PySliceFrom(data, 12))
                                           /\ resource_record.rr_type = rr_type
                                           /\ Unpack16(data, 12 + PyFind(PySliceFrom(data, 12), 0) + 2) = rr_type

C3_Witness == pc = "done" /\ timeouts = 1 /\ rr_type = RR_TYPE_NBSTAT /\ resource_record.rr_type = RR_TYPE_NBSTAT

\* C4: a received datagram whose header has bit 9 of the flags set ends the
\* call with UnsupportedFeature, whatever its transaction id; nothing is sent
\* and no attempt is made in that step or after the call has ended.
C4_TruncationFatal == [][/\ (pc = "recv" /\ event' = "datagram" /\ Len(data') >= 12 /\ (Unpack16(data', 3) \div 512) % 2 = 1) => (pc' = "raised" /\ err'.kind = "UnsupportedFeature" /\ sent' = sent /\ attempt' = attempt)
                         /\ pc = "raised" => (pc' = "raised" /\ err' = err /\ sent' = sent /\ attempt' = attempt)]_vars

C4_Witness == pc = "raised" /\ err.kind = "UnsupportedFeature" /\ Unpack16(data, 1) # transaction_id /\ Len(sent) = 2

\* C5 as stated: for a name of at most 15 characters and an empty domain the
\* encoding is 33 bytes: 32 characters in 'A'..'P', pair j being the high and
\* the low nibble (+ 0x41) of byte j of the label name + spaces + type, then NUL.
C5_EncodeIs33Bytes == (encoded # Unset /\ Len(encName) <= 15 /\ encDomain = <<>>) => /\ Len(encoded.bytes) = 33
                                                                                     /\ \A i \in 1..32 : encoded.bytes[i] \in 65..80
                                                                                     /\ \A j \in 1..16 : /\ encoded.bytes[2 * j - 1] = ((encName \o Spaces(15 - Len(encName)) \o <<encType>>)[j] \div 16) + 65
                                                                                                         /\ encoded.bytes[2 * j] = ((encName \o Spaces(15 - Len(encName)) \o <<encType>>)[j] % 16) + 65
                                                                                     /\ encoded.bytes[33] = 0

\* C6 as stated: a name longer than 15 characters encodes as its first 15
\* characters do, with the same domain and type.
C6_EncodeTruncates == (encoded # Unset /\ encodedPrefix # Unset /\ Len(encName) > 15) => encoded.bytes = encodedPrefix.bytes

\* C7: get_ip of an NB record whose rdata has n bytes returns n div 6
\* addresses; address k, read back from its dotted-decimal characters, is
\* bytes 6k+2..6k+5 of rdata; the n mod 6 bytes left over raise nothing.
C7_AddressesFromStrides == (addresses # Unset /\ record.rr_type = RR_TYPE_NB) => /\ addresses.kind = "list"
                                                                                 /\ Len(addresses.ip) = Len(record.rdata) \div 6
                                                                                 /\ \A k \in 0..(Len(addresses.ip) - 1) : ParseDotted(addresses.ip[k + 1]) = <<record.rdata[6 * k + 3], record.rdata[6 * k + 4], record.rdata[6 * k + 5], record.rdata[6 * k + 6]>>

C7_Witness == addresses # Unset /\ record.rr_type = RR_TYPE_NB /\ Len(record.rdata) = 8 /\ Len(addresses.ip) = 1

\* C8 as stated: the returned record's rdata is the rdata_length bytes behind
\* its fixed fields, and get_ip returns the addresses of those bytes only.
C8_RdataIsRdataLength == pc = "done" => /\ resource_record.rdata = PySlice(PySliceFrom(data, 12), PyFind(PySliceFrom(data, 12), 0) + 11, PyFind(PySliceFrom(data, 12), 0) + 11 + resource_record.rdata_length)
                                        /\ api = "get_ip" => Len(result.ip) = resource_record.rdata_length \div 6

\* C9: once a call has chosen its transaction id it is in 1..65535 and is
\* never assigned again; every request sent carries it, and the datagram
\* whose record is returned carries it too.
C9_OneTransactionId == /\ [](pc # "idle" => (transaction_id \in 1..65535 /\ \A i \in 1..Len(sent) : Unpack16(sent[i], 1) = transaction_id))
                       /\ [](pc = "done" => Unpack16(data, 1) = transaction_id)
                       /\ [][pc # "idle" => transaction_id' = transaction_id]_vars

C9_Witness == pc = "done" /\ Len(sent) = 3 /\ timeouts = 2 /\ transaction_id = 65535

\* C10 as stated: every call ends, with a record or with an error, whatever
\* datagrams arrive.
C10_CallEnds == <>(pc \in {"done", "raised"})

====
